---- MODULE Spec2Model ----
(***************************************************************************)
(* A model of rust-stock: the terminal watchlist of src/src/app.rs,        *)
(* events.rs, api.rs, model.rs and storage.rs (the foreground, its single  *)
(* refresh worker and the two channels between them), and of the earlier   *)
(* App of src/src/lib.rs, which spawns one thread per refresh and merges   *)
(* under locks.                                                            *)
(*                                                                         *)
(* Strings are sequences of one-character strings, so that prefix          *)
(* stripping, splitting, case mapping and formatting are computed          *)
(* character by character as the code computes them.                       *)
(* An f64 value of a Stock is held exactly, in thousandths (Milli): every  *)
(* divisor of the code (100, 1000) divides 1000.                           *)
(***************************************************************************)
EXTENDS Integers, Sequences, FiniteSets, TLC

(***************************************************************************)
(* Bounds of the model.                                                    *)
(***************************************************************************)
\* longest code given to the pure functions (to_secid, normalize_code_for_match)
MaxCodeLen == 3
\* longest text typed into App.input
MaxInput == 2
\* longest run of the app specification, in steps of any thread
MaxSteps == 7
\* the starting value of tick_count next to 0: the app has idled this long
TickStart == 58
\* most threads the refresh_stocks of lib.rs spawns in one run
MaxLibThreads == 3
\* watchlist and response lengths of the merge harness
MaxMergeStocks == 2
MaxFetched == 2
\* code length and list length of the storage harness
MaxStoredLen == 2
MaxStoredCodes == 2
\* the requests and results outstanding at once in the fair pipeline
MaxLiveIds == 1

(***************************************************************************)
(* Program constants.                                                      *)
(***************************************************************************)
\* app.rs:39  mpsc::sync_channel::<Vec<String>>(1)
RefreshCap == 1
\* app.rs:134  self.tick_count % 60
TickPeriod == 60
\* model.rs:115/117  the two price divisors; model.rs:124 the percent divisor
PriceDivisorSpecial == 1000
PriceDivisorDefault == 100
PercentDivisor == 100

(***************************************************************************)
(* Characters and strings.                                                 *)
(***************************************************************************)
\* char::is_whitespace on the characters of the model
Spaces == {" "}
\* the characters codes are built from in the pure-function harnesses
CodeChars == {"x", "X", "a", "7", "0", "."}
\* the characters the user types in the app specification
KeyChars == {"x", "7"}

\* char::is_ascii_digit
is_ascii_digit(c) == c \in {"0", "1", "2", "3", "4", "5", "6", "7", "8", "9"}

\* char::to_ascii_uppercase / to_lowercase on the characters of the model
to_ascii_uppercase_char(c) ==
    CASE c = "x" -> "X" [] c = "a" -> "A" [] c = "n" -> "N" [] c = "r" -> "R"
      [] c = "v" -> "V" [] c = "d" -> "D"
      [] OTHER -> c

to_lowercase_char(c) ==
    CASE c = "X" -> "x" [] c = "A" -> "a" [] c = "N" -> "n" [] c = "R" -> "r"
      [] c = "V" -> "v" [] c = "D" -> "d"
      [] OTHER -> c

\* str::to_ascii_uppercase, str::to_lowercase
to_ascii_uppercase(s) == [i \in 1..Len(s) |-> to_ascii_uppercase_char(s[i])]
to_lowercase(s) == [i \in 1..Len(s) |-> to_lowercase_char(s[i])]

\* str::eq_ignore_ascii_case
eq_ignore_ascii_case(a, b) == to_lowercase(a) = to_lowercase(b)

\* str::trim: leading and trailing whitespace removed
RECURSIVE trim_start(_)
trim_start(s) ==
    IF s # <<>> /\ Head(s) \in Spaces THEN trim_start(Tail(s)) ELSE s

RECURSIVE trim_end(_)
trim_end(s) ==
    IF s # <<>> /\ s[Len(s)] \in Spaces
    THEN trim_end(SubSeq(s, 1, Len(s) - 1))
    ELSE s

trim(s) == trim_end(trim_start(s))

\* all sequences over S of length at most n
SeqsUpTo(S, n) == UNION {[1..k -> S] : k \in 0..n}

(***************************************************************************)
(* api.rs: to_secid.                                                       *)
(***************************************************************************)
\* str::starts_with(char)
starts_with(s, c) == s # <<>> /\ s[1] = c

\* code.chars().all(|c| c.is_ascii_digit())
all_ascii_digit(code) == \A i \in 1..Len(code) : is_ascii_digit(code[i])

\* format!("1.{},0.{},116.{}", code, code, code)
format_numeric(code) ==
    <<"1", ".">> \o code \o <<",", "0", ".">> \o code
        \o <<",", "1", "1", "6", ".">> \o code

\* the London market left out of the alphabetic format
format_alpha_us_only(code) ==
    <<"1", "0", "5", ".">> \o code \o <<",", "1", "0", "6", ".">> \o code
        \o <<",", "1", "0", "7", ".">> \o code

\* format!("105.{},106.{},107.{},155.{}", code, code, code, code)
format_alpha(code) ==
    <<"1", "0", "5", ".">> \o code \o <<",", "1", "0", "6", ".">> \o code
        \o <<",", "1", "0", "7", ".">> \o code
        \o <<",", "1", "5", "5", ".">> \o code

\* the marker tested on the code as typed: only a lower-case x counts
to_secid_lowercase_marker(code) ==
    IF starts_with(code, "x")
    THEN Tail(code)
    ELSE IF all_ascii_digit(code)
         THEN format_numeric(code)
         ELSE format_alpha(code)

\* the digit test inverted
to_secid_inverted(code) ==
    IF starts_with(to_lowercase(code), "x")
    THEN Tail(code)
    ELSE IF all_ascii_digit(code)
         THEN format_alpha(code)
         ELSE format_numeric(code)

to_secid(code) ==
    IF starts_with(to_lowercase(code), "x")
    THEN Tail(code)
    ELSE IF all_ascii_digit(code)
         THEN format_numeric(code)
         ELSE format_alpha(code)

\* secids.join(",")
RECURSIVE join_comma(_)
join_comma(parts) ==
    IF parts = <<>> THEN <<>>
    ELSE IF Len(parts) = 1 THEN parts[1]
    ELSE parts[1] \o <<",">> \o join_comma(Tail(parts))

(***************************************************************************)
(* app.rs: normalize_code_for_match.                                       *)
(***************************************************************************)
\* code.strip_prefix('x'): Some(rest) exactly when the first char is 'x'
strip_prefix_x(code) == IF starts_with(code, "x") THEN Tail(code) ELSE code

\* stripped.rsplit('.').next(): the part after the last '.', or all of it
RECURSIVE rsplit_dot_first(_)
rsplit_dot_first(s) ==
    IF \A i \in 1..Len(s) : s[i] # "." THEN s
    ELSE rsplit_dot_first(Tail(s))

normalize_code_for_match(code) ==
    to_ascii_uppercase(rsplit_dot_first(strip_prefix_x(code)))

(***************************************************************************)
(* model.rs: Stock, RawStock and From<RawStock> for Stock.                 *)
(***************************************************************************)
\* Option<T>: None is <<>>, Some(v) is <<v>>
None == <<>>
Some(v) == <<v>>
unwrap_or(o, d) == IF o = None THEN d ELSE o[1]

\* the unit of a Stock's numeric fields: one over the largest divisor
Milli == PriceDivisorSpecial
\* an f64 divided by a divisor of the code, in thousandths
DivBy(raw, d) == (raw * Milli) \div d
\* a volume or value divided like a percentage
UnscaledAsPercent(raw) == (raw * Milli) \div PercentDivisor
\* an f64 passed through unscaled, in thousandths
Unscaled(raw) == raw * Milli

\* Stock::new(code)
StockNew(code) ==
    [code |-> code, title |-> code, price |-> 0, percent |-> 0, change |-> 0,
     amplitude |-> 0, open |-> 0, yestclose |-> 0, high |-> 0, low |-> 0,
     vol |-> 0, amount |-> 0, turnover |-> 0, pe |-> 0, pb |-> 0, ratio |-> 0,
     min_5_pct |-> 0, total_value |-> 0, cur_value |-> 0, speed |-> 0,
     pct_60d |-> 0, pct_ytd |-> 0]

\* the London market left out of the special markets
divisor_without_uk(mkt) ==
    IF mkt = 116 \/ (mkt >= 105 /\ mkt <= 107)
    THEN PriceDivisorSpecial
    ELSE PriceDivisorDefault

\* let divisor = if raw.mkt == 116 || (105..=107) || raw.mkt == 155
divisor(mkt) ==
    IF mkt = 116 \/ (mkt >= 105 /\ mkt <= 107) \/ mkt = 155
    THEN PriceDivisorSpecial
    ELSE PriceDivisorDefault

\* impl From<RawStock> for Stock
StockFromRaw(raw) ==
    [code |-> raw.code,
     title |-> raw.title,
     price |-> DivBy(unwrap_or(raw.price, 0), divisor(raw.mkt)),
     percent |-> DivBy(unwrap_or(raw.percent, 0), PercentDivisor),
     change |-> DivBy(unwrap_or(raw.change, 0), divisor(raw.mkt)),
     amplitude |-> DivBy(unwrap_or(raw.amplitude, 0), PercentDivisor),
     open |-> DivBy(unwrap_or(raw.open, 0), divisor(raw.mkt)),
     yestclose |-> DivBy(unwrap_or(raw.yestclose, 0), divisor(raw.mkt)),
     high |-> DivBy(unwrap_or(raw.high, 0), divisor(raw.mkt)),
     low |-> DivBy(unwrap_or(raw.low, 0), divisor(raw.mkt)),
     vol |-> Unscaled(unwrap_or(raw.vol, 0)),
     amount |-> Unscaled(unwrap_or(raw.amount, 0)),
     turnover |-> DivBy(unwrap_or(raw.turnover, 0), PercentDivisor),
     pe |-> DivBy(unwrap_or(raw.pe, 0), PercentDivisor),
     pb |-> DivBy(unwrap_or(raw.pb, 0), PercentDivisor),
     ratio |-> DivBy(unwrap_or(raw.ratio, 0), PercentDivisor),
     min_5_pct |-> DivBy(unwrap_or(raw.min_5_pct, 0), PercentDivisor),
     total_value |-> Unscaled(unwrap_or(raw.total_value, 0)),
     cur_value |-> Unscaled(unwrap_or(raw.cur_value, 0)),
     speed |-> DivBy(unwrap_or(raw.speed, 0), PercentDivisor),
     pct_60d |-> DivBy(unwrap_or(raw.pct_60d, 0), PercentDivisor),
     pct_ytd |-> DivBy(unwrap_or(raw.pct_ytd, 0), PercentDivisor)]

\* the numeric fields of RawStock, in declaration order (f2 .. f25)
RawNumericFields ==
    <<"price", "percent", "change", "vol", "amount", "amplitude", "turnover",
      "pe", "ratio", "min_5_pct", "high", "low", "open", "yestclose",
      "total_value", "cur_value", "speed", "pb", "pct_60d", "pct_ytd">>

\* the fields of Stock other than code
StockPayloadFields ==
    {"title"} \cup {RawNumericFields[i] : i \in 1..Len(RawNumericFields)}

\* a provider record: f12 = code, f13 = mkt, f14 = title; numeric field number k
\* carries base + k, and the fields named in nulls are null
RawStockOf(code, mkt, title, base, nulls) ==
    [f \in {"code", "mkt", "title"} \cup
           {RawNumericFields[i] : i \in 1..Len(RawNumericFields)} |->
        CASE f = "code" -> code
          [] f = "mkt" -> mkt
          [] f = "title" -> title
          [] OTHER ->
               IF f \in nulls THEN None
               ELSE Some(base + (CHOOSE k \in 1..Len(RawNumericFields) :
                                     RawNumericFields[k] = f))]

(***************************************************************************)
(* api.rs: fetch_stocks.  The provider's answer is the environment's       *)
(* choice: the transport fails, the body is not JSON, or it is a JSON      *)
(* value whose data.diff is absent (has_diff = FALSE) or an array of       *)
(* items, each either a record RawStock decodes (Some(raw)) or one it      *)
(* does not (None).                                                        *)
(***************************************************************************)
Response(kind, has_diff, diff) ==
    [kind |-> kind, has_diff |-> has_diff, diff |-> diff]

\* Result<Vec<Stock>, Box<dyn Error>>
Ok(data) == [ok |-> TRUE, data |-> data, err |-> <<>>]
Err(e) == [ok |-> FALSE, data |-> <<>>, err |-> e]

\* a record that fails to decode is skipped and the rest is returned
RECURSIVE decode_items_skip(_, _)
decode_items_skip(diff, stocks) ==
    IF diff = <<>> THEN Ok(stocks)
    ELSE IF Head(diff) = None THEN decode_items_skip(Tail(diff), stocks)
    ELSE decode_items_skip(Tail(diff),
                           Append(stocks, StockFromRaw(Head(diff)[1])))

\* the for loop over diff: the first item that fails to decode returns Err
RECURSIVE decode_items(_, _)
decode_items(diff, stocks) ==
    IF diff = <<>> THEN Ok(stocks)
    ELSE IF Head(diff) = None THEN Err("serde_json::Error(data)")
    ELSE decode_items(Tail(diff), Append(stocks, StockFromRaw(Head(diff)[1])))

\* the query of the one GET: every code resolved, joined with commas
query_ids(stock_codes) ==
    join_comma([i \in 1..Len(stock_codes) |-> to_secid(stock_codes[i])])

\* the GET requests one call of fetch_stocks issues: none for an empty list
\* (the early return), else one whose query is the resolved codes
http_requests(stock_codes) ==
    IF stock_codes = <<>> THEN <<>> ELSE <<query_ids(stock_codes)>>

fetch_stocks(stock_codes, resp) ==
    IF stock_codes = <<>> THEN Ok(<<>>)
    ELSE IF resp.kind = "transport_error" THEN Err("http_req::Error")
    ELSE IF resp.kind = "not_json" THEN Err("serde_json::Error(syntax)")
    ELSE IF resp.has_diff THEN decode_items(resp.diff, <<>>)
    ELSE Ok(<<>>)

(***************************************************************************)
(* app.rs: update_stocks, the merge of fetched quotes into the watchlist.  *)
(***************************************************************************)
\* new_data.iter().find(|s| s.code.eq_ignore_ascii_case(&user_key)):
\* the index of the first such quote, 0 when there is none
find_match(new_data, user_key) ==
    IF \E i \in 1..Len(new_data) : eq_ignore_ascii_case(new_data[i].code, user_key)
    THEN CHOOSE i \in 1..Len(new_data) :
            /\ eq_ignore_ascii_case(new_data[i].code, user_key)
            /\ \A j \in 1..(i - 1) :
                  ~eq_ignore_ascii_case(new_data[j].code, user_key)
    ELSE 0

\* the matched quote taken whole, its code included
update_stock_overwrite(stock, new_data) ==
    LET user_key == normalize_code_for_match(stock.code)
        m == find_match(new_data, user_key)
    IN IF m = 0 THEN stock ELSE new_data[m]

\* an entry without a match falls back to its placeholder
update_stock_reset(stock, new_data) ==
    LET user_key == normalize_code_for_match(stock.code)
        m == find_match(new_data, user_key)
    IN IF m = 0 THEN StockNew(stock.code)
       ELSE [new_data[m] EXCEPT !.code = stock.code]

\* the body of the loop for one stock
update_stock(stock, new_data) ==
    LET user_key == normalize_code_for_match(stock.code)
        m == find_match(new_data, user_key)
    IN IF m = 0 THEN stock
       ELSE [new_data[m] EXCEPT !.code = stock.code]

update_stocks(stocks, new_data) ==
    [i \in 1..Len(stocks) |-> update_stock(stocks[i], new_data)]

(***************************************************************************)
(* The state.  App's fields (app.rs:20-34), the worker thread of App::new, *)
(* the file storage.rs writes, and the instrumentation the properties      *)
(* need: each try_send is numbered (next_id) and the number travels with   *)
(* the request and with its result; taken, drained and dropped record what *)
(* became of each number.                                                  *)
(***************************************************************************)
VARIABLES
    should_exit,   \* App.should_exit
    state,         \* App.state: "Normal" or "Adding"
    error,         \* App.error: <<>> is the empty string, <<m, ...>> a message
    input,         \* App.input
    stocks,        \* App.stocks
    selected,      \* App.stocks_state.selected(): None or Some(index from 0)
    last_refresh,  \* App.last_refresh: the time of the last merge, in ticks
    tick_count,    \* App.tick_count
    refresh_tx,    \* the request channel refresh_tx -> refresh_rx
    rx,            \* the result channel worker_tx -> rx
    worker,        \* the worker thread: [pc, id, codes]
    threads,       \* the number of threads spawned so far
    saved,         \* the storage file: [kind, codes], kind as in Files
    panicked,      \* an index out of bounds has panicked the foreground
    next_id,       \* the number of try_send calls made so far
    taken,         \* the ids the worker has taken from the request channel
    drained,       \* the ids of the results the foreground has drained
    dropped,       \* the ids of the requests try_send refused as Full
    lthreads,      \* lib.rs: the threads refresh_stocks has spawned
    steps,         \* the number of steps taken so far
    h_pc,          \* the harnesses of the pure functions: "start" or "done"
    h_in,          \* the arguments
    h_out          \* the value returned

app_vars ==
    <<should_exit, state, error, input, stocks, selected, last_refresh,
      tick_count, saved, panicked>>
chan_vars == <<refresh_tx, rx, worker, threads, next_id, taken, drained, dropped>>
h_vars == <<h_pc, h_in, h_out>>
vars == <<app_vars, chan_vars, lthreads, steps, h_vars>>

\* self.stocks.iter().map(|s| s.code.clone()).collect()
codes_of(stks) == [i \in 1..Len(stks) |-> stks[i].code]

\* the messages of App.error (events.rs:87 and :95 in English)
MsgEmptyInput == <<"please enter a code">>
MsgExists(code) == <<"code already exists: ", code>>
MsgDisconnected == <<"refresh worker disconnected">>
MsgSaveFailed == <<"std::io::Error(write)">>
MsgLoadFailed == <<"invalid storage data">>

(***************************************************************************)
(* app.rs: refresh_stocks.  try_send never waits: it answers Ok, Full or   *)
(* Disconnected at once.  The operator gives the channel, the error and    *)
(* the instrumentation after the call made with the watchlist stks and the *)
(* error err.                                                              *)
(***************************************************************************)
\* a channel that never answers Full: what an unbounded channel would do
try_send_unbounded(chan) ==
    IF worker.pc = "dead" THEN "Disconnected" ELSE "Ok"

try_send(chan) ==
    IF worker.pc = "dead" THEN "Disconnected"
    ELSE IF Len(chan) >= RefreshCap THEN "Full"
    ELSE "Ok"

\* a full channel has its waiting request replaced by the new one
refresh_stocks_replace_on_full(stks, err) ==
    IF stks = <<>>
    THEN [refresh_tx |-> refresh_tx, error |-> err, next_id |-> next_id,
          dropped |-> dropped]
    ELSE LET codes == codes_of(stks)
             id == next_id + 1
             sent == try_send(refresh_tx)
         IN [refresh_tx |-> IF sent = "Disconnected" THEN refresh_tx
                            ELSE <<[id |-> id, codes |-> codes]>>,
             error |-> IF sent = "Disconnected" THEN MsgDisconnected ELSE err,
             next_id |-> id,
             dropped |-> IF sent = "Full"
                         THEN dropped \cup {refresh_tx[1].id} ELSE dropped]

\* the early return on an empty list left out
refresh_stocks_always_sends(stks, err) ==
    LET codes == codes_of(stks)
        id == next_id + 1
        sent == try_send(refresh_tx)
    IN [refresh_tx |-> IF sent = "Ok"
                       THEN Append(refresh_tx, [id |-> id, codes |-> codes])
                       ELSE refresh_tx,
        error |-> IF sent = "Disconnected" THEN MsgDisconnected ELSE err,
        next_id |-> id,
        dropped |-> IF sent = "Full" THEN dropped \cup {id} ELSE dropped]

refresh_stocks(stks, err) ==
    IF stks = <<>>
    THEN [refresh_tx |-> refresh_tx, error |-> err, next_id |-> next_id,
          dropped |-> dropped]
    ELSE LET codes == codes_of(stks)
             id == next_id + 1
             sent == try_send(refresh_tx)
         IN [refresh_tx |-> IF sent = "Ok"
                            THEN Append(refresh_tx, [id |-> id, codes |-> codes])
                            ELSE refresh_tx,
             error |-> IF sent = "Disconnected" THEN MsgDisconnected ELSE err,
             next_id |-> id,
             dropped |-> IF sent = "Full" THEN dropped \cup {id} ELSE dropped]

(***************************************************************************)
(* app.rs: save_stocks over storage.rs: save_stocks.  Whether the write    *)
(* succeeds is the environment's choice.                                   *)
(***************************************************************************)
\* the list written is the one held before the mutation
save_stocks_stale(stks, save_ok) ==
    IF save_ok THEN [kind |-> "list", codes |-> codes_of(stocks)] ELSE saved

save_stocks(stks, save_ok) ==
    IF save_ok THEN [kind |-> "list", codes |-> codes_of(stks)] ELSE saved

(***************************************************************************)
(* app.rs: drain_events.  Every pending result is processed, oldest first. *)
(***************************************************************************)
\* a success merged with the error message left as it was
drain_event_keeps_error(app, event) ==
    IF event.ok
    THEN [app EXCEPT !.stocks = update_stocks(app.stocks, event.data),
                     !.last_refresh = app.now]
    ELSE [app EXCEPT !.error = <<event.err>>]

\* one iteration of the while let loop, on app = [stocks, error,
\* last_refresh, now]; Local::now() reads the time, counted in ticks
drain_event(app, event) ==
    IF event.ok
    THEN [app EXCEPT !.stocks = update_stocks(app.stocks, event.data),
                     !.last_refresh = app.now,
                     !.error = <<>>]
    ELSE [app EXCEPT !.error = <<event.err>>]


RECURSIVE drain_events(_, _)
drain_events(app, events) ==
    IF events = <<>> THEN app
    ELSE drain_events(drain_event(app, Head(events)), Tail(events))

ids_of(msgs) == [i \in 1..Len(msgs) |-> msgs[i].id]

(***************************************************************************)
(* The environment of the app specification: the storage file found at     *)
(* startup and the provider's answers.                                     *)
(***************************************************************************)
\* codes a storage file may hold
S7 == <<"7">>
SX7 == <<"x", "7">>
SA == <<"a">>
FileLists == {<<>>, <<S7>>, <<SX7, SA>>}

\* what storage::load_stocks finds: no file, a malformed one, or a code list
Files == {[kind |-> "missing", codes |-> <<>>],
          [kind |-> "malformed", codes |-> <<>>]}
         \cup {[kind |-> "list", codes |-> l] : l \in FileLists}

\* the records the provider answers with
Raw7 == RawStockOf(<<"7">>, 116, <<"T", "7">>, 123000, {})
RawA == RawStockOf(<<"A">>, 1, <<"T", "A">>, 250, {"price", "vol"})
Items == {None, Some(Raw7), Some(RawA)}

Responses ==
    {Response("transport_error", FALSE, <<>>),
     Response("not_json", FALSE, <<>>),
     Response("json", FALSE, <<>>)}
    \cup {Response("json", TRUE, <<>>)}
    \cup {Response("json", TRUE, <<item>>) : item \in Items}

(***************************************************************************)
(* App::new (app.rs:37-74): the channels, the one worker thread, the       *)
(* fields, then load_stocks and the first refresh_stocks.  tick_count is 0 *)
(* after construction; the state with TickStart idle ticks behind it, in   *)
(* which the worker has not run yet, is the same but for tick_count, and   *)
(* is a second starting point so that the sixtieth tick is within reach.   *)
(***************************************************************************)
\* App::load_stocks over storage::load_stocks
loaded_stocks(file) ==
    IF file.kind = "list"
    THEN [i \in 1..Len(file.codes) |-> StockNew(file.codes[i])]
    ELSE <<>>

loaded_error(file) == IF file.kind = "malformed" THEN MsgLoadFailed ELSE <<>>

WorkerIdle == [pc |-> "recv", id |-> 0, codes |-> <<>>]

\* the harnesses of the pure functions and the threads of lib.rs are not
\* part of the app
InitHarness == h_pc = "off" /\ h_in = <<>> /\ h_out = <<>>

\* the fields App::new sets (app.rs:56-67) and the empty channels
InitFields ==
    /\ should_exit = FALSE
    /\ state = "Normal"
    /\ input = <<>>
    /\ selected = None
    /\ last_refresh = 0
    /\ rx = <<>>
    /\ panicked = FALSE
    /\ taken = <<>>
    /\ drained = <<>>
    /\ dropped = {}
    /\ steps = 0

\* app.load_stocks() and app.refresh_stocks() on the file found (app.rs:70-72)
InitApp(file) ==
    /\ InitFields
    /\ stocks = loaded_stocks(file)
    /\ error = loaded_error(file)
    /\ saved = file
    /\ refresh_tx = IF loaded_stocks(file) = <<>> THEN <<>>
                    ELSE <<[id |-> 1, codes |-> codes_of(loaded_stocks(file))]>>
    /\ next_id = IF loaded_stocks(file) = <<>> THEN 0 ELSE 1
    /\ worker = WorkerIdle
    /\ threads = 1

Init ==
    /\ \E file \in Files : InitApp(file)
    /\ tick_count \in {0, TickStart}
    /\ lthreads = <<>>
    /\ InitHarness

(***************************************************************************)
(* events.rs: on_events.  One action per event the handler distinguishes.  *)
(***************************************************************************)
\* let total, sel, selsome (events.rs:7-9)
total == Len(stocks)
sel == unwrap_or(selected, 0)
\* the test sel < total left out
selsome_unchecked == selected # None

selsome == selected # None /\ sel < total

\* every step of a run counts; a run is followed for MaxSteps steps
Budget == steps < MaxSteps /\ steps' = steps + 1

\* the foreground takes events until should_exit; a panic ends it
Foreground == ~should_exit /\ ~panicked

\* Vec::remove(index): the vector without the element at index (from 0)
remove(v, index) == SubSeq(v, 1, index) \o SubSeq(v, index + 2, Len(v))
\* slice::swap(a, b), indices from 0
swap(v, a, b) == [v EXCEPT ![a + 1] = v[b + 1], ![b + 1] = v[a + 1]]
\* whether an index (from 0) is within the vector
in_bounds(v, index) == index >= 0 /\ index < Len(v)

\* 'q'
KeyQ ==
    /\ Budget
    /\ Foreground /\ state = "Normal"
    /\ should_exit' = TRUE
    /\ UNCHANGED <<state, error, input, stocks, selected, last_refresh,
                   tick_count, saved, panicked, chan_vars, lthreads, h_vars>>

\* 'r'
KeyR ==
    /\ Budget
    /\ Foreground /\ state = "Normal"
    /\ LET r == refresh_stocks(stocks, error)
       IN /\ refresh_tx' = r.refresh_tx
          /\ error' = r.error
          /\ next_id' = r.next_id
          /\ dropped' = r.dropped
    /\ UNCHANGED <<should_exit, state, input, stocks, selected, last_refresh,
                   tick_count, saved, panicked, rx, worker, threads, taken,
                   drained, lthreads, h_vars>>

\* 'n'
KeyN ==
    /\ Budget
    /\ Foreground /\ state = "Normal"
    /\ state' = "Adding"
    /\ input' = <<>>
    /\ UNCHANGED <<should_exit, error, stocks, selected, last_refresh,
                   tick_count, saved, panicked, chan_vars, lthreads, h_vars>>

\* 'd': without a valid selection the event falls through every branch
\* 'd' with the selection left where it was
KeyDKeepsSelection ==
    /\ Budget
    /\ Foreground /\ state = "Normal"
    /\ \E save_ok \in BOOLEAN :
         IF selsome
         THEN IF in_bounds(stocks, sel)
              THEN /\ stocks' = remove(stocks, sel)
                   /\ saved' = save_stocks(stocks', save_ok)
                   /\ error' = IF save_ok THEN error ELSE MsgSaveFailed
                   /\ UNCHANGED <<selected, panicked>>
              ELSE /\ panicked' = TRUE
                   /\ UNCHANGED <<stocks, saved, error, selected>>
         ELSE UNCHANGED <<stocks, saved, error, selected, panicked>>
    /\ UNCHANGED <<should_exit, state, input, last_refresh, tick_count,
                   chan_vars, lthreads, h_vars>>

KeyD ==
    /\ Budget
    /\ Foreground /\ state = "Normal"
    /\ \E save_ok \in BOOLEAN :
         IF selsome
         THEN IF in_bounds(stocks, sel)
              THEN /\ stocks' = remove(stocks, sel)
                   /\ saved' = save_stocks(stocks', save_ok)
                   /\ error' = IF save_ok THEN error ELSE MsgSaveFailed
                   /\ selected' = None
                   /\ UNCHANGED panicked
              ELSE /\ panicked' = TRUE
                   /\ UNCHANGED <<stocks, saved, error, selected>>
         ELSE UNCHANGED <<stocks, saved, error, selected, panicked>>
    /\ UNCHANGED <<should_exit, state, input, last_refresh, tick_count,
                   chan_vars, lthreads, h_vars>>

\* the swap made and the selection left on the old index
move_selected_keeps_index(by, applies, save_ok) ==
    IF applies
    THEN IF in_bounds(stocks, sel) /\ in_bounds(stocks, sel + by)
         THEN /\ stocks' = swap(stocks, sel, sel + by)
              /\ saved' = save_stocks(stocks', save_ok)
              /\ error' = IF save_ok THEN error ELSE MsgSaveFailed
              /\ UNCHANGED <<selected, panicked>>
         ELSE /\ panicked' = TRUE
              /\ UNCHANGED <<stocks, saved, error, selected>>
    ELSE UNCHANGED <<stocks, saved, error, selected, panicked>>

\* 'u' and 'j': the selected stock swaps with its neighbour at sel + by
move_selected(by, applies, save_ok) ==
    IF applies
    THEN IF in_bounds(stocks, sel) /\ in_bounds(stocks, sel + by)
         THEN /\ stocks' = swap(stocks, sel, sel + by)
              /\ saved' = save_stocks(stocks', save_ok)
              /\ error' = IF save_ok THEN error ELSE MsgSaveFailed
              /\ selected' = Some(sel + by)
              /\ UNCHANGED panicked
         ELSE /\ panicked' = TRUE
              /\ UNCHANGED <<stocks, saved, error, selected>>
    ELSE UNCHANGED <<stocks, saved, error, selected, panicked>>

KeyU ==
    /\ Budget
    /\ Foreground /\ state = "Normal"
    /\ \E save_ok \in BOOLEAN : move_selected(-1, selsome /\ sel > 0, save_ok)
    /\ UNCHANGED <<should_exit, state, input, last_refresh, tick_count,
                   chan_vars, lthreads, h_vars>>

KeyJ ==
    /\ Budget
    /\ Foreground /\ state = "Normal"
    /\ \E save_ok \in BOOLEAN :
         move_selected(1, selsome /\ sel < total - 1, save_ok)
    /\ UNCHANGED <<should_exit, state, input, last_refresh, tick_count,
                   chan_vars, lthreads, h_vars>>

\* Up and ScrollUp, Down and ScrollDown select alike (events.rs:44-50, 61-75)
select_up == IF total > 0
             THEN selected' = Some(IF sel > 0 THEN sel - 1 ELSE 0)
             ELSE UNCHANGED selected

select_down == IF total > 0
               THEN selected' = Some(IF sel < total - 1 THEN sel + 1 ELSE sel)
               ELSE UNCHANGED selected

KeyUp ==
    /\ Budget
    /\ Foreground /\ state = "Normal"
    /\ select_up
    /\ UNCHANGED <<should_exit, state, error, input, stocks, last_refresh,
                   tick_count, saved, panicked, chan_vars, lthreads, h_vars>>

KeyDown ==
    /\ Budget
    /\ Foreground /\ state = "Normal"
    /\ select_down
    /\ UNCHANGED <<should_exit, state, error, input, stocks, last_refresh,
                   tick_count, saved, panicked, chan_vars, lthreads, h_vars>>

MouseScrollUp ==
    /\ Budget
    /\ Foreground /\ state = "Normal"
    /\ select_up
    /\ UNCHANGED <<should_exit, state, error, input, stocks, last_refresh,
                   tick_count, saved, panicked, chan_vars, lthreads, h_vars>>

MouseScrollDown ==
    /\ Budget
    /\ Foreground /\ state = "Normal"
    /\ select_down
    /\ UNCHANGED <<should_exit, state, error, input, stocks, last_refresh,
                   tick_count, saved, panicked, chan_vars, lthreads, h_vars>>

\* a mouse button released on a row of the terminal
MouseUp ==
    /\ Budget
    /\ Foreground /\ state = "Normal"
    /\ \E row \in 0..(total + 2) :
         IF row >= 2 /\ row < total + 2
         THEN selected' = Some(row - 2)
         ELSE UNCHANGED selected
    /\ UNCHANGED <<should_exit, state, error, input, stocks, last_refresh,
                   tick_count, saved, panicked, chan_vars, lthreads, h_vars>>

\* the keys compared with the manual-mode marker left on
code_exists_unstripped(stks, code) ==
    \E i \in 1..Len(stks) :
        to_ascii_uppercase(rsplit_dot_first(stks[i].code))
            = to_ascii_uppercase(rsplit_dot_first(code))

\* a watchlist holds the raw code itself: what a test without the
\* normalization would be
code_exists_raw(stks, code) ==
    \E i \in 1..Len(stks) : stks[i].code = code

\* let exists = app.stocks.iter().any(|s| normalize(&s.code) == input_key)
code_exists(stks, code) ==
    \E i \in 1..Len(stks) :
        normalize_code_for_match(stks[i].code) = normalize_code_for_match(code)

\* Enter while Adding, the refresh asked for before the push
AddEnterRefreshFirst ==
    /\ Budget
    /\ Foreground /\ state = "Adding"
    /\ state' = "Normal"
    /\ LET code == trim(input)
           exists == code_exists(stocks, code)
       IN IF code = <<>>
          THEN /\ error' = MsgEmptyInput
               /\ UNCHANGED <<stocks, saved, refresh_tx, next_id, dropped>>
          ELSE IF exists
          THEN /\ error' = MsgExists(code)
               /\ UNCHANGED <<stocks, saved, refresh_tx, next_id, dropped>>
          ELSE /\ stocks' = Append(stocks, StockNew(code))
               /\ \E save_ok \in BOOLEAN :
                    LET r == refresh_stocks(stocks, error)
                    IN /\ refresh_tx' = r.refresh_tx
                       /\ next_id' = r.next_id
                       /\ dropped' = r.dropped
                       /\ saved' = save_stocks(stocks', save_ok)
                       /\ error' = IF save_ok THEN <<>> ELSE MsgSaveFailed
    /\ UNCHANGED <<should_exit, input, selected, last_refresh, tick_count,
                   panicked, rx, worker, threads, taken, drained, lthreads,
                   h_vars>>

\* Enter while Adding (events.rs:83-106)
AddEnter ==
    /\ Budget
    /\ Foreground /\ state = "Adding"
    /\ state' = "Normal"
    /\ LET code == trim(input)
           exists == code_exists(stocks, code)
       IN IF code = <<>>
          THEN /\ error' = MsgEmptyInput
               /\ UNCHANGED <<stocks, saved, refresh_tx, next_id, dropped>>
          ELSE IF exists
          THEN /\ error' = MsgExists(code)
               /\ UNCHANGED <<stocks, saved, refresh_tx, next_id, dropped>>
          ELSE /\ stocks' = Append(stocks, StockNew(code))
               /\ \E save_ok \in BOOLEAN :
                    LET r == refresh_stocks(stocks', error)
                    IN /\ refresh_tx' = r.refresh_tx
                       /\ next_id' = r.next_id
                       /\ dropped' = r.dropped
                       /\ saved' = save_stocks(stocks', save_ok)
                       /\ error' = IF save_ok THEN <<>> ELSE MsgSaveFailed
    /\ UNCHANGED <<should_exit, input, selected, last_refresh, tick_count,
                   panicked, rx, worker, threads, taken, drained, lthreads,
                   h_vars>>

\* Esc while Adding
AddEsc ==
    /\ Budget
    /\ Foreground /\ state = "Adding"
    /\ state' = "Normal"
    /\ UNCHANGED <<should_exit, error, input, stocks, selected, last_refresh,
                   tick_count, saved, panicked, chan_vars, lthreads, h_vars>>

\* a character typed while Adding
AddChar ==
    /\ Budget
    /\ Foreground /\ state = "Adding"
    /\ Len(input) < MaxInput
    /\ \E c \in KeyChars : input' = Append(input, c)
    /\ UNCHANGED <<should_exit, state, error, stocks, selected, last_refresh,
                   tick_count, saved, panicked, chan_vars, lthreads, h_vars>>

\* Backspace while Adding: String::pop
AddBackspace ==
    /\ Budget
    /\ Foreground /\ state = "Adding"
    /\ input' = IF input = <<>> THEN <<>> ELSE SubSeq(input, 1, Len(input) - 1)
    /\ UNCHANGED <<should_exit, state, error, stocks, selected, last_refresh,
                   tick_count, saved, panicked, chan_vars, lthreads, h_vars>>

(***************************************************************************)
(* app.rs: on_tick (129-139): count, drain, and refresh on every sixtieth  *)
(* tick while Normal.                                                      *)
(***************************************************************************)
\* the periodic refresh asked for in whatever state the UI is
periodic_due_any_state(count, st) == count % TickPeriod = 0

\* if self.tick_count % 60 == 0 { if let AppState::Normal = self.state {
periodic_due(count, st) == count % TickPeriod = 0 /\ st = "Normal"

OnTick ==
    /\ Budget
    /\ Foreground
    /\ tick_count' = tick_count + 1
    /\ LET app == drain_events([stocks |-> stocks, error |-> error,
                                last_refresh |-> last_refresh,
                                now |-> tick_count'], rx)
           periodic == periodic_due(tick_count', state)
           r == refresh_stocks(app.stocks, app.error)
       IN /\ stocks' = app.stocks
          /\ last_refresh' = app.last_refresh
          /\ drained' = drained \o ids_of(rx)
          /\ rx' = <<>>
          /\ IF periodic
             THEN /\ refresh_tx' = r.refresh_tx
                  /\ error' = r.error
                  /\ next_id' = r.next_id
                  /\ dropped' = r.dropped
             ELSE /\ error' = app.error
                  /\ UNCHANGED <<refresh_tx, next_id, dropped>>
    /\ UNCHANGED <<should_exit, state, input, selected, saved, panicked,
                   worker, threads, taken, lthreads, h_vars>>

(***************************************************************************)
(* The worker thread of App::new (app.rs:43-54): for codes in refresh_rx,  *)
(* fetch, send the result.  It is the only thread the app spawns, and it   *)
(* ends with the process once the main loop has seen should_exit.          *)
(***************************************************************************)
\* refresh_rx yields the oldest request; fetch_stocks begins
WorkerRecv ==
    /\ Budget
    /\ ~should_exit
    /\ worker.pc = "recv"
    /\ refresh_tx # <<>>
    /\ worker' = [pc |-> "fetching", id |-> Head(refresh_tx).id,
                  codes |-> Head(refresh_tx).codes]
    /\ taken' = Append(taken, Head(refresh_tx).id)
    /\ refresh_tx' = Tail(refresh_tx)
    /\ UNCHANGED <<app_vars, rx, threads, next_id, drained, dropped, lthreads,
                   h_vars>>

\* AppEvent::StocksFetched(data) or AppEvent::FetchError(format!("{:?}", e))
app_event(id, result) ==
    [id |-> id, ok |-> result.ok, data |-> result.data, err |-> result.err]

\* a failed fetch is reported and then tried again for the same request
WorkerPublishAndRetry ==
    /\ Budget
    /\ ~should_exit
    /\ worker.pc = "fetching"
    /\ \E resp \in Responses :
         LET result == fetch_stocks(worker.codes, resp)
         IN /\ rx' = Append(rx, app_event(worker.id, result))
            /\ worker' = IF result.ok THEN WorkerIdle ELSE worker
    /\ UNCHANGED <<app_vars, refresh_tx, threads, next_id, taken, drained,
                   dropped, lthreads, h_vars>>

\* the result put in front of those waiting instead of behind them
WorkerPublishInFront ==
    /\ Budget
    /\ ~should_exit
    /\ worker.pc = "fetching"
    /\ \E resp \in Responses :
         rx' = <<app_event(worker.id, fetch_stocks(worker.codes, resp))>> \o rx
    /\ worker' = WorkerIdle
    /\ UNCHANGED <<app_vars, refresh_tx, threads, next_id, taken, drained,
                   dropped, lthreads, h_vars>>

\* fetch_stocks returns and the one result is sent
WorkerPublish ==
    /\ Budget
    /\ ~should_exit
    /\ worker.pc = "fetching"
    /\ \E resp \in Responses :
         rx' = Append(rx, app_event(worker.id, fetch_stocks(worker.codes, resp)))
    /\ worker' = WorkerIdle
    /\ UNCHANGED <<app_vars, refresh_tx, threads, next_id, taken, drained,
                   dropped, lthreads, h_vars>>

Next ==
    \/ KeyQ \/ KeyR \/ KeyN \/ KeyD \/ KeyU \/ KeyJ
    \/ KeyUp \/ KeyDown \/ MouseUp \/ MouseScrollUp \/ MouseScrollDown
    \/ AddEnter \/ AddEsc \/ AddChar \/ AddBackspace
    \/ OnTick
    \/ WorkerRecv \/ WorkerPublish

Spec == Init /\ [][Next]_vars

(***************************************************************************)
(* The app with a worker that can terminate: a panic below fetch_stocks    *)
(* unwinds the closure of app.rs:43-54, refresh_rx and worker_tx are       *)
(* dropped, the request waiting is discarded with the channel and every    *)
(* later try_send answers Disconnected (app.rs:106).                       *)
(***************************************************************************)
WorkerPanics ==
    /\ Budget
    /\ ~should_exit
    /\ worker.pc = "fetching"
    /\ worker' = [pc |-> "dead", id |-> worker.id, codes |-> <<>>]
    /\ refresh_tx' = <<>>
    /\ UNCHANGED <<app_vars, rx, threads, next_id, taken, drained, dropped,
                   lthreads, h_vars>>

NextWorkerGone == Next \/ WorkerPanics

SpecWorkerGone == Init /\ [][NextWorkerGone]_vars

(***************************************************************************)
(* The refresh pipeline under fair scheduling: the 'r' key, the tick and   *)
(* the two worker steps, run without end.  The state is kept finite by     *)
(* what the code cannot tell apart: the tick counter is held modulo        *)
(* TickPeriod (on_tick reads it only through % 60), Local::now() is an     *)
(* input read from LiveClock, and a request is named by an id free for     *)
(* reuse once its result has been drained.  The user presses 'r' only      *)
(* while fewer than MaxLiveIds requests are outstanding.                   *)
(***************************************************************************)
\* the readings of Local::now() in drain_events
LiveClock == {1, 2}

\* the ids of the requests queued, being fetched or waiting to be drained
PipelineIds ==
    {refresh_tx[i].id : i \in 1..Len(refresh_tx)}
    \cup (IF worker.pc = "fetching" THEN {worker.id} ELSE {})
    \cup {rx[i].id : i \in 1..Len(rx)}

\* the id given to the next request accepted, given the ids outstanding
FreshId(used) == CHOOSE id \in 1..(MaxLiveIds + 1) :
                    /\ id \notin used
                    /\ \A other \in 1..(MaxLiveIds + 1) :
                          other \notin used => id <= other

\* refresh_stocks with the request it queued, if any, named by id
live_refresh(stks, err, id) ==
    LET r == refresh_stocks(stks, err)
    IN [refresh_tx |-> IF r.refresh_tx = refresh_tx THEN refresh_tx
                       ELSE <<[id |-> id, codes |-> codes_of(stks)]>>,
        error |-> r.error]

\* 'r'
LiveKeyR ==
    /\ Foreground /\ state = "Normal"
    /\ Cardinality(PipelineIds) < MaxLiveIds
    /\ LET r == live_refresh(stocks, error, FreshId(PipelineIds))
       IN /\ refresh_tx' = r.refresh_tx
          /\ error' = r.error
    /\ UNCHANGED <<should_exit, state, input, stocks, selected, last_refresh,
                   tick_count, saved, panicked, rx, worker, threads, next_id,
                   taken, drained, dropped, lthreads, steps, h_vars>>

\* on_tick; drained holds the ids of the results this tick has drained
LiveTick ==
    /\ Foreground
    /\ tick_count' = (tick_count + 1) % TickPeriod
    /\ \E now \in (IF \E i \in 1..Len(rx) : rx[i].ok THEN LiveClock ELSE {last_refresh}) :
       LET app == drain_events([stocks |-> stocks, error |-> error,
                                last_refresh |-> last_refresh,
                                now |-> now], rx)
           periodic == periodic_due(tick_count', state)
           r == live_refresh(app.stocks, app.error,
                             FreshId(PipelineIds \ {rx[i].id : i \in 1..Len(rx)}))
       IN /\ stocks' = app.stocks
          /\ last_refresh' = app.last_refresh
          /\ drained' = ids_of(rx)
          /\ rx' = <<>>
          /\ IF periodic
             THEN /\ refresh_tx' = r.refresh_tx
                  /\ error' = r.error
             ELSE /\ error' = app.error
                  /\ UNCHANGED refresh_tx
    /\ UNCHANGED <<should_exit, state, input, selected, saved, panicked,
                   worker, threads, next_id, taken, dropped, lthreads, steps,
                   h_vars>>

\* refresh_rx yields the oldest request; fetch_stocks begins
LiveRecv ==
    /\ ~should_exit
    /\ worker.pc = "recv"
    /\ refresh_tx # <<>>
    /\ worker' = [pc |-> "fetching", id |-> Head(refresh_tx).id,
                  codes |-> Head(refresh_tx).codes]
    /\ refresh_tx' = Tail(refresh_tx)
    /\ UNCHANGED <<app_vars, rx, threads, next_id, taken, drained, dropped,
                   lthreads, steps, h_vars>>

\* the answers of the provider in the fair pipeline: a failure and a success
LiveResponses ==
    {Response("transport_error", FALSE, <<>>),
     Response("json", TRUE, <<Some(Raw7)>>)}

\* a failed fetch is not reported
LivePublishOkOnly ==
    /\ ~should_exit
    /\ worker.pc = "fetching"
    /\ \E resp \in LiveResponses :
         LET result == fetch_stocks(worker.codes, resp)
         IN rx' = IF result.ok THEN Append(rx, app_event(worker.id, result))
                  ELSE rx
    /\ worker' = WorkerIdle
    /\ UNCHANGED <<app_vars, refresh_tx, threads, next_id, taken, drained,
                   dropped, lthreads, steps, h_vars>>

\* fetch_stocks returns and the one result is sent
LivePublish ==
    /\ ~should_exit
    /\ worker.pc = "fetching"
    /\ \E resp \in LiveResponses :
         rx' = Append(rx, app_event(worker.id, fetch_stocks(worker.codes, resp)))
    /\ worker' = WorkerIdle
    /\ UNCHANGED <<app_vars, refresh_tx, threads, next_id, taken, drained,
                   dropped, lthreads, steps, h_vars>>

NextLive == LiveKeyR \/ LiveTick \/ LiveRecv \/ LivePublish

\* every fetch terminates and the worker thread is scheduled whenever it
\* can take a step; the tick, which the running foreground can always
\* take, comes again and again
SpecLive ==
    /\ Init
    /\ [][NextLive]_vars
    /\ WF_vars(LiveRecv)
    /\ WF_vars(LivePublish)
    /\ []<><<LiveTick>>_vars

(***************************************************************************)
(* lib.rs: the earlier App.  Its stocks, error and last_refresh are shared *)
(* under locks, refresh_stocks spawns one thread per call, and the thread  *)
(* merges what it fetched itself.  A thread is [id, query, pc, resp]: pc   *)
(* is "get" while request::get is in flight and "apply" once the response  *)
(* is in and the locks are to be taken.                                    *)
(***************************************************************************)
\* str::contains(&str): needle occurs in hay
contains(hay, needle) ==
    \E k \in 0..(Len(hay) - Len(needle)) :
        SubSeq(hay, k + 1, k + Len(needle)) = needle

\* item["f12"].as_str().unwrap_or(""), and every other lookup with its default:
\* an item without the fields reads as code "", market 0, no title, no numbers
lib_item(item, stock) ==
    IF item = None
    THEN RawStockOf(<<>>, 0, stock.code, 0,
                    {RawNumericFields[k] : k \in 1..Len(RawNumericFields)})
    ELSE item[1]

\* the body of the inner loop (lib.rs:196-227)
lib_update_stock(stock, item) ==
    IF contains(stock.code, lib_item(item, stock).code)
    THEN [StockFromRaw(lib_item(item, stock)) EXCEPT !.code = stock.code]
    ELSE stock

\* for item in diff { for stock in stocks.iter_mut() { .. } }
RECURSIVE lib_merge(_, _)
lib_merge(stks, diff) ==
    IF diff = <<>> THEN stks
    ELSE lib_merge([i \in 1..Len(stks) |-> lib_update_stock(stks[i], Head(diff))],
                   Tail(diff))

\* get_codes (lib.rs:241-250) over the to_secid of lib.rs:254-271, which is
\* that of api.rs line for line
get_codes(stks) == query_ids(codes_of(stks))

\* lib.rs load_stocks: a missing or unreadable file reads as no stocks
lib_loaded_stocks(file) == loaded_stocks(file)

lib_thread(id, query) ==
    [id |-> id, query |-> query, pc |-> "get",
     resp |-> Response("none", FALSE, <<>>)]

\* a storage file whose one code contains another provider code
S00700 == <<"0", "0", "7", "0", "0">>
S700 == <<"7", "0", "0">>
Raw700 == RawStockOf(S700, 116, <<"T", "7", "0", "0">>, 5000, {})
LibFiles == Files \cup {[kind |-> "list", codes |-> <<S00700>>]}
LibResponses == Responses \cup {Response("json", TRUE, <<Some(Raw700)>>)}

\* App::new of lib.rs (107-122): the fields, load_stocks, refresh_stocks
InitLib ==
    /\ InitFields
    /\ \E file \in LibFiles :
         /\ stocks = lib_loaded_stocks(file)
         /\ saved = file
         /\ lthreads = IF get_codes(stocks) = <<>> THEN <<>>
                       ELSE <<lib_thread(1, get_codes(stocks))>>
         /\ threads = Len(lthreads)
    /\ error = <<>>
    /\ tick_count = 0
    /\ refresh_tx = <<>>
    /\ next_id = 0
    /\ worker = [pc |-> "absent", id |-> 0, codes |-> <<>>]
    /\ InitHarness

\* refresh_stocks (lib.rs:174-239), the caller's side: a thread is spawned
\* whenever the query is not empty
LibRefresh ==
    /\ threads < MaxLibThreads
    /\ get_codes(stocks) # <<>>
    /\ lthreads' = Append(lthreads, lib_thread(threads + 1, get_codes(stocks)))
    /\ threads' = threads + 1
    /\ UNCHANGED <<app_vars, refresh_tx, rx, worker, next_id, taken, drained,
                   dropped, steps, h_vars>>

\* request::get returns in thread i
LibThreadGet ==
    \E i \in 1..Len(lthreads) : \E resp \in LibResponses :
        /\ lthreads[i].pc = "get"
        /\ lthreads' = [lthreads EXCEPT ![i].pc = "apply", ![i].resp = resp]
        /\ UNCHANGED <<app_vars, chan_vars, steps, h_vars>>

\* thread i, holding the lock of error, writes the outcome and ends
LibThreadApply ==
    \E i \in 1..Len(lthreads) :
        /\ lthreads[i].pc = "apply"
        /\ LET resp == lthreads[i].resp
           IN IF resp.kind = "transport_error"
              THEN /\ error' = <<"http_req::Error">>
                   /\ UNCHANGED <<stocks, last_refresh>>
              ELSE IF resp.kind = "json" /\ resp.has_diff
              THEN /\ stocks' = lib_merge(stocks, resp.diff)
                   /\ last_refresh' = last_refresh + 1
                   /\ error' = <<>>
              ELSE /\ error' = <<"data parse error">>
                   /\ UNCHANGED <<stocks, last_refresh>>
        /\ lthreads' = remove(lthreads, i - 1)
        /\ UNCHANGED <<should_exit, state, input, selected, tick_count, saved,
                       panicked, chan_vars, steps, h_vars>>

NextLib == LibRefresh \/ LibThreadGet \/ LibThreadApply

SpecLib == InitLib /\ [][NextLib]_vars

(***************************************************************************)
(* Harnesses: a pure function is called once on arguments drawn from a     *)
(* bounded set; h_in holds the arguments and h_out the value returned.     *)
(***************************************************************************)
\* the app is not running while a harness is
NoApp ==
    /\ InitFields
    /\ stocks = <<>>
    /\ error = <<>>
    /\ saved = [kind |-> "missing", codes |-> <<>>]
    /\ tick_count = 0
    /\ refresh_tx = <<>>
    /\ next_id = 0
    /\ worker = [pc |-> "absent", id |-> 0, codes |-> <<>>]
    /\ threads = 0
    /\ lthreads = <<>>

no_app_vars == <<app_vars, chan_vars, lthreads, steps>>

\* to_secid(code) for every code of at most MaxCodeLen characters
InitSecid ==
    /\ NoApp
    /\ h_pc = "start"
    /\ h_in \in SeqsUpTo(CodeChars, MaxCodeLen)
    /\ h_out = <<>>

CallToSecid ==
    /\ h_pc = "start"
    /\ h_pc' = "done"
    /\ h_out' = to_secid(h_in)
    /\ UNCHANGED <<h_in, no_app_vars>>

SpecSecid == InitSecid /\ [][CallToSecid]_vars

\* one user code through both of its readers: to_secid for the query and
\* normalize_code_for_match for the merge
CallResolveAndNormalize ==
    /\ h_pc = "start"
    /\ h_pc' = "done"
    /\ h_out' = [secid |-> to_secid(h_in), key |-> normalize_code_for_match(h_in)]
    /\ UNCHANGED <<h_in, no_app_vars>>

SpecMatchKey == InitSecid /\ [][CallResolveAndNormalize]_vars

\* Stock::from(raw) for records of every kind of market, with every numeric
\* field present, some null, or all null
RawMarkets == {0, 1, 104, 105, 106, 107, 108, 116, 155, 156}
RawBases == {0, 249, 122999}
RawNulls ==
    {{}, {"price", "percent", "vol", "low", "cur_value", "pct_ytd"},
     {RawNumericFields[i] : i \in 1..Len(RawNumericFields)}}

InitFromRaw ==
    /\ NoApp
    /\ h_pc = "start"
    /\ h_in \in {RawStockOf(S00700, m, <<"T">>, b, n) :
                    m \in RawMarkets, b \in RawBases, n \in RawNulls}
    /\ h_out = <<>>

CallFromRaw ==
    /\ h_pc = "start"
    /\ h_pc' = "done"
    /\ h_out' = StockFromRaw(h_in)
    /\ UNCHANGED <<h_in, no_app_vars>>

SpecFromRaw == InitFromRaw /\ [][CallFromRaw]_vars

\* fetch_stocks on a watchlist's codes and a provider answer, the result
\* sent as the worker sends it and drained as the foreground drains it
FetchLists ==
    {<<>>, <<StockNew(S7)>>, <<StockNew(SX7), StockNew(SA)>>,
     <<[StockFromRaw(RawA) EXCEPT !.code = SA], StockNew(S7)>>}
FetchResponses ==
    {Response("transport_error", FALSE, <<>>),
     Response("not_json", FALSE, <<>>),
     Response("json", FALSE, <<>>)}
    \cup {Response("json", TRUE, d) : d \in SeqsUpTo(Items, MaxFetched)}

InitFetch ==
    /\ NoApp
    /\ h_pc = "start"
    /\ h_in \in [stocks : FetchLists, resp : FetchResponses]
    /\ h_out = <<>>

CallFetch ==
    /\ h_pc = "start"
    /\ h_pc' = "done"
    /\ LET codes == codes_of(h_in.stocks)
           result == fetch_stocks(codes, h_in.resp)
           event == app_event(1, result)
           app == [stocks |-> h_in.stocks, error |-> <<>>, last_refresh |-> 0,
                   now |-> 1]
       IN h_out' = [requests |-> http_requests(codes),
                    result |-> result,
                    event |-> event,
                    app |-> drain_events(app, <<event>>)]
    /\ UNCHANGED <<h_in, no_app_vars>>

SpecFetch == InitFetch /\ [][CallFetch]_vars

\* on_events for 'd', 'u' and 'j' on an App of any list length and any
\* selection, the indices past the end of the list included
Selections == {None, Some(0), Some(1), Some(2), Some(5)}

InitSelection ==
    /\ \E file \in {f \in Files : f.kind = "list"} :
         /\ stocks = loaded_stocks(file)
         /\ saved = file
    /\ selected \in Selections
    /\ should_exit = FALSE /\ state = "Normal" /\ input = <<>>
    /\ error = <<>> /\ panicked = FALSE
    /\ last_refresh = 0 /\ tick_count = 0
    /\ refresh_tx = <<>> /\ rx = <<>> /\ worker = WorkerIdle /\ threads = 1
    /\ next_id = 0 /\ taken = <<>> /\ drained = <<>> /\ dropped = {}
    /\ lthreads = <<>> /\ steps = 0
    /\ InitHarness

NextSelection == KeyD \/ KeyU \/ KeyJ

SpecSelection == InitSelection /\ [][NextSelection]_vars

(***************************************************************************)
(* storage.rs: the file is [exists, content], its content the characters   *)
(* serde_json writes for StorageData: {"stocks":[{"code":"..."},...]}.     *)
(***************************************************************************)
JsonOpen == <<"{", "\"", "s", "t", "o", "c", "k", "s", "\"", ":", "[">>
JsonItemOpen == <<"{", "\"", "c", "o", "d", "e", "\"", ":", "\"">>
JsonItemClose == <<"\"", "}">>
JsonClose == <<"]", "}">>

has_prefix(s, p) == Len(s) >= Len(p) /\ SubSeq(s, 1, Len(p)) = p
drop(s, n) == SubSeq(s, n + 1, Len(s))

\* a string written with nothing escaped
json_escape_none(str) == str

\* serde_json's string escaping: a quote and a backslash get a backslash
RECURSIVE json_escape(_)
json_escape(str) ==
    IF str = <<>> THEN <<>>
    ELSE (IF Head(str) \in {"\"", "\\"} THEN <<"\\", Head(str)>>
          ELSE <<Head(str)>>) \o json_escape(Tail(str))

\* serde_json::to_string(&StorageData { stocks: items })
RECURSIVE json_items(_)
json_items(codes) ==
    IF codes = <<>> THEN <<>>
    ELSE JsonItemOpen \o json_escape(Head(codes)) \o JsonItemClose
         \o (IF Len(codes) > 1 THEN <<",">> ELSE <<>>)
         \o json_items(Tail(codes))

to_string(codes) == JsonOpen \o json_items(codes) \o JsonClose

\* storage::save_stocks: the file written
storage_save_stocks(codes) == [exists |-> TRUE, content |-> to_string(codes)]

\* a JSON string read from after its opening quote: [ok, value, rest]
RECURSIVE parse_string(_, _)
parse_string(s, acc) ==
    IF s = <<>> THEN [ok |-> FALSE, value |-> <<>>, rest |-> <<>>]
    ELSE IF Head(s) = "\"" THEN [ok |-> TRUE, value |-> acc, rest |-> Tail(s)]
    ELSE IF Head(s) = "\\"
         THEN IF Len(s) >= 2 /\ s[2] \in {"\"", "\\"}
              THEN parse_string(drop(s, 2), Append(acc, s[2]))
              ELSE [ok |-> FALSE, value |-> <<>>, rest |-> <<>>]
    ELSE parse_string(Tail(s), Append(acc, Head(s)))

\* the items of the array, read from after "[" or ","
RECURSIVE parse_items(_, _)
parse_items(s, acc) ==
    IF ~has_prefix(s, JsonItemOpen) THEN Err("invalid storage data")
    ELSE LET str == parse_string(drop(s, Len(JsonItemOpen)), <<>>)
         IN IF ~str.ok \/ ~has_prefix(str.rest, <<"}">>)
            THEN Err("invalid storage data")
            ELSE LET rest == Tail(str.rest)
                     codes == Append(acc, str.value)
                 IN IF rest = JsonClose THEN Ok(codes)
                    ELSE IF has_prefix(rest, <<",">>)
                         THEN parse_items(Tail(rest), codes)
                         ELSE Err("invalid storage data")

\* serde_json::from_str::<StorageData>(&content), on the texts save_stocks
\* writes and on texts that are not JSON
from_str(content) ==
    IF ~has_prefix(content, JsonOpen) THEN Err("invalid storage data")
    ELSE IF drop(content, Len(JsonOpen)) = JsonClose THEN Ok(<<>>)
    ELSE parse_items(drop(content, Len(JsonOpen)), <<>>)

\* storage::load_stocks
storage_load_stocks(file) ==
    IF ~file.exists THEN Ok(<<>>) ELSE from_str(file.content)

\* the list forgotten when the load fails
app_load_stocks_or_default(stks, err, file) ==
    LET r == storage_load_stocks(file)
    IN IF r.ok
       THEN [stocks |-> [i \in 1..Len(r.data) |-> StockNew(r.data[i])],
             error |-> err]
       ELSE [stocks |-> <<>>, error |-> <<r.err>>]

\* App::load_stocks on an App holding stks and err
app_load_stocks(stks, err, file) ==
    LET r == storage_load_stocks(file)
    IN IF r.ok
       THEN [stocks |-> [i \in 1..Len(r.data) |-> StockNew(r.data[i])],
             error |-> err]
       ELSE [stocks |-> stks, error |-> <<r.err>>]

\* save_stocks then load_stocks on lists of codes that hold the characters
\* JSON escapes, separators and duplicates
StoredCodes ==
    SeqsUpTo({"\"", "\\"}, MaxStoredLen)
    \cup {<<"a", ",">>, <<"6", "0", "0", "5", "1", "9">>}

InitStorage ==
    /\ NoApp
    /\ h_pc = "start"
    /\ h_in \in SeqsUpTo(StoredCodes, MaxStoredCodes)
    /\ h_out = <<>>

CallStorageSave ==
    /\ h_pc = "start"
    /\ h_pc' = "saved"
    /\ h_out' = [file |-> storage_save_stocks(h_in), result |-> <<>>]
    /\ UNCHANGED <<h_in, no_app_vars>>

CallStorageLoad ==
    /\ h_pc = "saved"
    /\ h_pc' = "done"
    /\ h_out' = [h_out EXCEPT !.result = storage_load_stocks(h_out.file)]
    /\ UNCHANGED <<h_in, no_app_vars>>

NextStorage == CallStorageSave \/ CallStorageLoad

SpecStorage == InitStorage /\ [][NextStorage]_vars

\* App::load_stocks on an App that holds a list, with no file, a file that
\* is not JSON, a file cut short, or a file save_stocks wrote
BadContents ==
    {<<"{", "n", "o", "t">>, <<>>, JsonOpen,
     JsonOpen \o JsonItemOpen \o <<"7">>,
     JsonOpen \o JsonItemOpen \o <<"7", "\\">> \o JsonItemClose \o JsonClose}
LoadFiles ==
    {[exists |-> FALSE, content |-> <<>>]}
    \cup {[exists |-> TRUE, content |-> c] : c \in BadContents}
    \cup {storage_save_stocks(l) : l \in FileLists}

InitLoad ==
    /\ NoApp
    /\ h_pc = "start"
    /\ h_in \in [stocks : FetchLists, error : {<<>>, MsgEmptyInput},
                 file : LoadFiles]
    /\ h_out = <<>>

CallAppLoad ==
    /\ h_pc = "start"
    /\ h_pc' = "done"
    /\ h_out' = app_load_stocks(h_in.stocks, h_in.error, h_in.file)
    /\ UNCHANGED <<h_in, no_app_vars>>

SpecLoad == InitLoad /\ [][CallAppLoad]_vars

\* the watchlists and the provider records of the merge harnesses
SNVDA == <<"N", "V", "D", "A">>
Snvda == <<"n", "v", "d", "a">>
SX105NVDA == <<"x", "1", "0", "5", ".">> \o SNVDA
SRRdot == <<"R", "R", ".">>
MergeCodes == {SX105NVDA, Snvda, S00700, S700, SRRdot}

RawOld == RawStockOf(<<"O">>, 1, <<"O", "L", "D">>, 90000, {"open"})
\* an entry is new, or carries the quote of an earlier merge
MergeEntries ==
    {StockNew(c) : c \in MergeCodes}
    \cup {[StockFromRaw(RawOld) EXCEPT !.code = c] : c \in MergeCodes}

MergeRaws ==
    {RawStockOf(SNVDA, 105, <<"N", "v", "i", "d", "i", "a">>, 123000, {}),
     RawStockOf(SNVDA, 1, <<"N", "2">>, 456000, {"price", "pe"}),
     Raw700,
     RawStockOf(S00700, 116, <<"T", "c">>, 7000, {"vol"}),
     RawStockOf(SRRdot, 155, <<"R", "o", "l", "l", "s">>, 800, {})}

InitMerge ==
    /\ NoApp
    /\ h_pc = "start"
    /\ h_in \in [stocks : SeqsUpTo(MergeEntries, MaxMergeStocks),
                 diff : SeqsUpTo({Some(r) : r \in MergeRaws}, MaxFetched)]
    /\ h_out = <<>>

\* update_stocks of app.rs on the quotes fetch_stocks decodes from diff
CallUpdateStocks ==
    /\ h_pc = "start"
    /\ h_pc' = "done"
    /\ h_out' = update_stocks(h_in.stocks, decode_items(h_in.diff, <<>>).data)
    /\ UNCHANGED <<h_in, no_app_vars>>

SpecMerge == InitMerge /\ [][CallUpdateStocks]_vars

\* the merge of lib.rs on the same watchlists and records
CallLibMerge ==
    /\ h_pc = "start"
    /\ h_pc' = "done"
    /\ h_out' = lib_merge(h_in.stocks, h_in.diff)
    /\ UNCHANGED <<h_in, no_app_vars>>

SpecLibMerge == InitMerge /\ [][CallLibMerge]_vars

(***************************************************************************)
(* Properties.                                                             *)
(***************************************************************************)
\* the fetches running at a moment: the worker's, and those of lib.rs threads
FetchesInFlight ==
    (IF worker.pc = "fetching" THEN 1 ELSE 0)
    + Cardinality({i \in 1..Len(lthreads) : lthreads[i].pc = "get"})

Range(f) == {f[i] : i \in DOMAIN f}

\* the ids try_send accepted among those numbered after id
AcceptedAfter(id) == {k \in (id + 1)..next_id : k \notin dropped}

\* C1: refresh_stocks never blocks: 'r' can be taken whenever the foreground
\* is in Normal state, whatever the worker is doing.  The request channel never
\* holds more than one request, at most one fetch is in flight, and of the
\* calls made while a fetch is in flight at most one is accepted, so at most
\* one more fetch follows; every later call is dropped.
C1_RefreshNeverBlocksAndCoalesces ==
    /\ Len(refresh_tx) <= 1
    /\ FetchesInFlight <= 1
    /\ (Foreground /\ state = "Normal" /\ steps < MaxSteps) => ENABLED KeyR
    /\ worker.pc = "fetching" =>
          /\ Cardinality(AcceptedAfter(worker.id)) <= 1
          /\ AcceptedAfter(worker.id) = Range(ids_of(refresh_tx))

\* C1 witness: a fetch is in flight, one request waits, and a later call was
\* dropped.
C1_Witness ==
    /\ worker.pc = "fetching"
    /\ Len(refresh_tx) = 1
    /\ \E id \in dropped : id > refresh_tx[1].id

\* C2: no refresh request spawns a thread: there is never more than the one
\* background thread, and never more than one fetch running.
C2_OneWorkerOneFetch ==
    /\ threads <= 1
    /\ FetchesInFlight <= 1

\* a step of a background thread
BackgroundStep == WorkerRecv \/ WorkerPublish \/ LibThreadGet \/ LibThreadApply

\* C3: no step of a background thread changes the watchlist, the error
\* message or the last-refresh time.
C3_BackgroundLeavesAppState ==
    [][BackgroundStep => UNCHANGED <<stocks, error, last_refresh>>]_vars

\* C4: results are published and drained in the order their requests were
\* taken: the ids drained, then those waiting in the result channel, then the
\* one being fetched, are exactly the ids taken, in that order.  A request
\* dropped as Full is never taken, never fetched and never answered.
C4_ResultsInRequestOrder ==
    /\ taken = drained \o ids_of(rx)
                 \o (IF worker.pc = "fetching" THEN <<worker.id>> ELSE <<>>)
    /\ \A i, j \in 1..Len(taken) : i < j => taken[i] < taken[j]
    /\ \A id \in dropped :
          /\ id \notin Range(taken)
          /\ id \notin Range(ids_of(refresh_tx))

\* C4 witness: two results have been drained and a request was dropped.
C4_Witness ==
    /\ Len(drained) >= 2
    /\ drained = SubSeq(taken, 1, Len(drained))
    /\ dropped # {}

\* the quotes fetch_stocks decodes from the records of the harness
HQuotes == [j \in 1..Len(h_in.diff) |-> StockFromRaw(h_in.diff[j][1])]
\* the match key of entry i of the harness
HKey(i) == normalize_code_for_match(h_in.stocks[i].code)
\* quote j is the one the merge finds for entry i: equal to the key but for case
HFound(i, j) == to_ascii_uppercase(HQuotes[j].code) = to_ascii_uppercase(HKey(i))
\* entry i is matched by the merge
HMatched(i) == \E j \in 1..Len(HQuotes) : HFound(i, j)
\* two stocks agree on every field but code
SamePayload(a, b) == \A f \in StockPayloadFields : a[f] = b[f]

\* C5: merge never changes an entry's code, and a matched entry carries the
\* title and every numeric field of a quote that matches it.
C5_MergeKeepsUserCode ==
    h_pc = "done" =>
        /\ Len(h_out) = Len(h_in.stocks)
        /\ \A i \in 1..Len(h_out) :
              /\ h_out[i].code = h_in.stocks[i].code
              /\ HMatched(i) =>
                    \E j \in 1..Len(HQuotes) :
                        HFound(i, j) /\ SamePayload(h_out[i], HQuotes[j])

\* C5 witness: entry x105.NVDA merged with a quote whose code is NVDA.
C5_Witness ==
    /\ h_pc = "done"
    /\ Len(h_out) = 1 /\ Len(h_in.diff) = 1
    /\ h_in.stocks[1] = StockNew(SX105NVDA)
    /\ HQuotes[1].code = SNVDA
    /\ h_out[1].code = SX105NVDA
    /\ h_out[1].title = HQuotes[1].title
    /\ h_out[1].price = HQuotes[1].price

\* the quotes whose normalized provider code is the key of entry i
HSameKey(i) ==
    {j \in 1..Len(HQuotes) : normalize_code_for_match(HQuotes[j].code) = HKey(i)}
Min(S) == CHOOSE x \in S : \A y \in S : x <= y

\* C6: the normalization is applied to the entry's code and to each quote's
\* provider code alike; an entry is updated from the first quote, in fetched
\* order, whose normalized provider code is the entry's key, and is updated
\* if and only if there is one.
C6_MatchOnNormalizedKeys ==
    h_pc = "done" =>
        \A i \in 1..Len(h_in.stocks) :
            IF HSameKey(i) # {}
            THEN /\ SamePayload(h_out[i], HQuotes[Min(HSameKey(i))])
                 /\ h_out[i].code = h_in.stocks[i].code
            ELSE h_out[i] = h_in.stocks[i]

\* C7: merge keeps the number of entries and the sequence of their codes,
\* adds no entry for a quote nothing matches, and leaves an entry the merge
\* finds no quote for exactly as it was.
C7_MergeKeepsOrderAndMembers ==
    h_pc = "done" =>
        /\ Len(h_out) = Len(h_in.stocks)
        /\ codes_of(h_out) = codes_of(h_in.stocks)
        /\ \A i \in 1..Len(h_in.stocks) :
              ~HMatched(i) => h_out[i] = h_in.stocks[i]

\* C7 witness: an entry carrying an earlier quote, a quote that matches no
\* entry, and the list unchanged by the merge.
C7_Witness ==
    /\ h_pc = "done"
    /\ Len(h_in.stocks) = 2 /\ Len(h_in.diff) >= 1
    /\ h_in.stocks[1].title = <<"O", "L", "D">>
    /\ \A i \in 1..2 : ~HMatched(i)
    /\ h_out = h_in.stocks

\* C8: matching is by equality of normalized keys, never by containment: an
\* entry none of whose quotes has its key is left as it was, so key 00700 is
\* not updated by provider code 700, nor key 700 by provider code 00700.
C8_NoSubstringMatch ==
    h_pc = "done" =>
        \A i \in 1..Len(h_in.stocks) :
            HSameKey(i) = {} => h_out[i] = h_in.stocks[i]

\* the trimmed input has the match key of an entry of the list
DuplicateInput ==
    /\ trim(input) # <<>>
    /\ \E i \in 1..Len(stocks) :
          normalize_code_for_match(stocks[i].code)
              = normalize_code_for_match(trim(input))

\* C9: Enter on an input whose match key an entry already has sets the error
\* message, leaves the list, the request channel and the saved file as they
\* were, makes no refresh call, and does not panic.
C9_DuplicateAddRejected ==
    [][(AddEnter /\ DuplicateInput) =>
          /\ error' = MsgExists(trim(input))
          /\ stocks' = stocks
          /\ refresh_tx' = refresh_tx
          /\ next_id' = next_id
          /\ saved' = saved
          /\ ~panicked']_vars

\* C9 witness: "7" was rejected because the list holds "x7".
C9_Witness ==
    /\ error = MsgExists(S7)
    /\ state = "Normal"
    /\ codes_of(stocks) = <<SX7, SA>>
    /\ input = S7

\* "1.<code>,0.<code>,116.<code>"
ThreeMarkets(code) ==
    <<"1", ".">> \o code \o <<",", "0", ".">> \o code
        \o <<",", "1", "1", "6", ".">> \o code

FourMarkets(code) ==
    <<"1", "0", "5", ".">> \o code \o <<",", "1", "0", "6", ".">> \o code
        \o <<",", "1", "0", "7", ".">> \o code
        \o <<",", "1", "5", "5", ".">> \o code

\* the code holds a character that is not a digit, and does not begin with
\* the manual-mode marker
AlphaBlind(code) ==
    /\ \E i \in 1..Len(code) : code[i] \notin {"0", "7"}
    /\ code[1] \notin {"x", "X"}

\* C11: for every code that is not digit-only and has no leading marker,
\* to_secid returns "105.<code>,106.<code>,107.<code>,155.<code>"; one
\* character that is not a digit, a trailing '.' included, is enough.
C11_AlphaCodes ==
    (h_pc = "done" /\ AlphaBlind(h_in)) => h_out = FourMarkets(h_in)

\* C11 witness: to_secid("70.") has returned the four-market string.
C11_Witness ==
    /\ h_pc = "done"
    /\ h_in = <<"7", "0", ".">>
    /\ h_out = <<"1", "0", "5", ".", "7", "0", ".", ",",
                 "1", "0", "6", ".", "7", "0", ".", ",",
                 "1", "0", "7", ".", "7", "0", ".", ",",
                 "1", "5", "5", ".", "7", "0", ".">>

\* C12: for every code whose first character is x or X, to_secid returns
\* the code without that one character: nothing is added, no second x is
\* removed, and the case of the rest is kept.
C12_ManualMode ==
    (h_pc = "done" /\ h_in # <<>> /\ h_in[1] \in {"x", "X"}) =>
        /\ Len(h_out) = Len(h_in) - 1
        /\ \A i \in 1..Len(h_out) : h_out[i] = h_in[i + 1]

\* C12 witness: to_secid("Xxa") has returned "xa".
C12_Witness ==
    /\ h_pc = "done"
    /\ h_in = <<"X", "x", "a">>
    /\ h_out = <<"x", "a">>

\* the fields the price divisor applies to
PriceFields == {"price", "change", "open", "yestclose", "high", "low"}
\* the percentage-like fields
PercentFields ==
    {"percent", "amplitude", "turnover", "pe", "pb", "ratio", "min_5_pct",
     "speed", "pct_60d", "pct_ytd"}
\* the fields passed through
PlainFields == {"vol", "amount", "total_value", "cur_value"}
\* the raw value of field f of the record, 0 when it is null or absent
RawValue(f) == IF h_in[f] = <<>> THEN 0 ELSE h_in[f][1]
\* the divisor the market code calls for
MarketDivisor(mkt) == IF mkt \in {116, 105, 106, 107, 155} THEN 1000 ELSE 100

\* C13: the price divisor is 1000 exactly for markets 116, 105, 106, 107 and
\* 155 and 100 for every other market, and each of price, change, open,
\* previous close, high and low is the raw value divided by it: raw price
\* 123000 gives 123 in market 116 and 1230 in market 1.
C13_PriceDivisor ==
    h_pc = "done" =>
        /\ \A f \in PriceFields :
              h_out[f] * MarketDivisor(h_in.mkt) = RawValue(f) * Milli
        /\ (h_in.price = <<123000>> /\ h_in.mkt = 116) => h_out.price = 123 * Milli
        /\ (h_in.price = <<123000>> /\ h_in.mkt = 1) => h_out.price = 1230 * Milli

\* C13 witness: a record of market 155 with raw price 123000 was normalized
\* to price 123.
C13_Witness ==
    /\ h_pc = "done"
    /\ h_in.mkt = 155
    /\ h_in.price = <<123000>>
    /\ h_out.price = 123 * Milli
    /\ h_out.low = 123 * Milli + 11

\* C14: in every market each percentage-like field is the raw value divided
\* by 100, volume, amount, total value and circulating value are the raw
\* values themselves, and a null or absent numeric field gives 0.
C14_PercentAndPlainFields ==
    h_pc = "done" =>
        /\ \A f \in PercentFields : h_out[f] * 100 = RawValue(f) * Milli
        /\ \A f \in PlainFields : h_out[f] = RawValue(f) * Milli
        /\ \A f \in PriceFields \cup PercentFields \cup PlainFields :
              h_in[f] = <<>> => h_out[f] = 0

\* C14 witness: a record of a special market with some fields null: the
\* percentages are divided by 100, the volume-like fields passed through.
C14_Witness ==
    /\ h_pc = "done"
    /\ h_in.mkt = 116
    /\ h_in.percent = <<>> /\ h_out.percent = 0
    /\ h_in.amplitude = <<255>> /\ h_out.amplitude = 2550
    /\ h_in.amount = <<254>> /\ h_out.amount = 254 * Milli
    /\ h_in.vol = <<>> /\ h_out.vol = 0

\* C15: a response whose body is JSON without the array data.diff makes
\* fetch_stocks return an error, which the foreground receives as a
\* FetchError and shows; it is not a successful empty list.
C15_MissingArrayIsError ==
    (h_pc = "done" /\ h_in.stocks # <<>>
        /\ h_in.resp.kind = "json" /\ ~h_in.resp.has_diff) =>
        /\ ~h_out.result.ok
        /\ ~h_out.event.ok
        /\ h_out.app.error # <<>>

\* the response of the call is a JSON body with the array data.diff
HasArray == h_in.stocks # <<>> /\ h_in.resp.kind = "json" /\ h_in.resp.has_diff
\* some record of the array does not decode
BadRecord == \E i \in 1..Len(h_in.resp.diff) : h_in.resp.diff[i] = <<>>

\* C16: if a record of the array fails to decode, fetch_stocks returns an
\* error, the event sent is a FetchError carrying no quote, and the drain
\* leaves the watchlist as it was; otherwise the result is one normalized
\* quote per record, in the order of the array.
C16_AllOrNothing ==
    (h_pc = "done" /\ HasArray) =>
        IF BadRecord
        THEN /\ ~h_out.result.ok /\ h_out.result.data = <<>>
             /\ ~h_out.event.ok /\ h_out.event.data = <<>>
             /\ h_out.app.stocks = h_in.stocks
             /\ h_out.app.error # <<>>
        ELSE /\ h_out.result.ok
             /\ h_out.event.ok
             /\ Len(h_out.result.data) = Len(h_in.resp.diff)
             /\ \A i \in 1..Len(h_in.resp.diff) :
                   h_out.result.data[i] = StockFromRaw(h_in.resp.diff[i][1])
             /\ h_out.event.data = h_out.result.data

\* C16 witness: the array holds a good record followed by a bad one, the
\* watchlist has an entry the good record matches, and nothing was merged.
C16_Witness ==
    /\ h_pc = "done"
    /\ HasArray
    /\ h_in.resp.diff = <<Some(Raw7), None>>
    /\ h_in.stocks = <<StockNew(S7)>>
    /\ ~h_out.result.ok
    /\ h_out.app.stocks = <<StockNew(S7)>>

\* no request waiting or being fetched carries an empty code list, the
\* startup refresh of an empty watchlist has sent nothing, and fetch_stocks
\* on an empty list issues no GET and returns an empty list
NoEmptyRoundTrip ==
    /\ \A i \in 1..Len(refresh_tx) : refresh_tx[i].codes # <<>>
    /\ worker.pc = "fetching" => worker.codes # <<>>
    /\ (steps = 0 /\ stocks = <<>>) => (refresh_tx = <<>> /\ next_id = 0)
    /\ http_requests(<<>>) = <<>>
    /\ \A resp \in Responses :
          LET result == fetch_stocks(<<>>, resp)
          IN result.ok /\ result.data = <<>>

\* C17: no round trip is made for an empty code set: no request ever
\* carries an empty list, 'r' on an empty watchlist changes no state, a
\* tick that leaves the watchlist empty sends nothing, the startup refresh
\* of an empty watchlist sends nothing, and fetch_stocks on an empty list
\* returns an empty list without a GET.
C17_NoRoundTripForEmptyList ==
    /\ []NoEmptyRoundTrip
    /\ [][/\ (KeyR /\ stocks = <<>>) => UNCHANGED <<app_vars, chan_vars>>
          /\ (tick_count' = tick_count + 1 /\ stocks' = <<>>) =>
                UNCHANGED <<refresh_tx, next_id, dropped>>]_vars

\* C17 witness: the watchlist was empty at startup and still is after one
\* key in Normal state, 'r' among them; nothing was ever sent.
C17_Witness ==
    /\ stocks = <<>> /\ saved.kind = "missing"
    /\ steps = 1 /\ tick_count = 0
    /\ state = "Normal" /\ ~should_exit
    /\ refresh_tx = <<>> /\ next_id = 0 /\ worker.pc = "recv"

\* refresh_stocks is called on the list the step leaves: try_send is called
\* once, and the request is queued with that list's codes or dropped as Full
RefreshCalledAfter ==
    /\ next_id' = next_id + 1
    /\ \/ refresh_tx' = Append(refresh_tx, [id |-> next_id', codes |-> codes_of(stocks')])
       \/ /\ refresh_tx # <<>>
          /\ refresh_tx' = refresh_tx
          /\ dropped' = dropped \cup {next_id'}
\* a key that changes the watchlist
ListMutation == (AddEnter \/ KeyD \/ KeyU \/ KeyJ) /\ stocks' # stocks

\* C18 as stated: after every mutation of the watchlist (add, delete, move
\* up, move down) that leaves it non-empty, refresh_stocks is called with
\* the list as mutated.
C18_RefreshAfterEveryMutation ==
    [][(ListMutation /\ stocks' # <<>>) => RefreshCalledAfter]_vars

\* C18 amended: after a successful add, refresh_stocks is called with the
\* list as mutated; delete, move up and move down make no refresh call.
C18_RefreshAfterAddOnly ==
    [][/\ (AddEnter /\ stocks' # stocks) => RefreshCalledAfter
       /\ (KeyD \/ KeyU \/ KeyJ) =>
             UNCHANGED <<refresh_tx, next_id, dropped>>]_vars

\* C18 witness: "77" was added and the request waiting carries the list
\* with it.
C18_Witness ==
    /\ stocks # <<>>
    /\ stocks[Len(stocks)].code = <<"7", "7">>
    /\ refresh_tx # <<>>
    /\ refresh_tx[1].id = next_id
    /\ refresh_tx[1].codes = codes_of(stocks)

\* C19: a tick calls refresh_stocks exactly when the incremented counter is
\* a multiple of 60 and the state is Normal (seen whenever the watchlist is
\* not empty); in Adding state no tick sends anything; every tick, in both
\* states, drains every pending result.
C19_PeriodicRefresh ==
    [][tick_count' = tick_count + 1 =>
          /\ rx' = <<>>
          /\ drained' = drained \o [i \in 1..Len(rx) |-> rx[i].id]
          /\ IF tick_count' % 60 = 0 /\ state = "Normal"
             THEN stocks' # <<>> => RefreshCalledAfter
             ELSE UNCHANGED <<refresh_tx, next_id, dropped>>]_vars

\* C19 witness: the 59th and the 60th tick have passed in Normal state while
\* the worker fetched the startup request, and the second request waits.
C19_Witness ==
    /\ tick_count = 60 /\ steps = 3
    /\ state = "Normal"
    /\ worker.pc = "fetching" /\ worker.id = 1
    /\ next_id = 2
    /\ refresh_tx # <<>> /\ refresh_tx[1].id = 2

\* C20: every structural mutation (successful add, delete, move up, move
\* down) is followed in the same step by a save of exactly the codes of the
\* list as mutated, in order; when the save fails the file is as it was, the
\* error message is set, the mutation stands and the foreground goes on.
C20_SaveAfterEveryMutation ==
    [][ListMutation =>
          \/ saved' = [kind |-> "list", codes |-> [i \in 1..Len(stocks') |-> stocks'[i].code]]
          \/ /\ saved' = saved
             /\ error' = MsgSaveFailed
             /\ ~panicked' /\ ~should_exit']_vars

\* C20 witness: the two entries of the stored list were swapped and the
\* file holds the new order.
C20_Witness ==
    /\ codes_of(stocks) = <<SA, SX7>>
    /\ saved = [kind |-> "list", codes |-> <<SA, SX7>>]
    /\ error = <<>>

\* a step in which refresh_stocks is called on a non-empty watchlist: 'r',
\* a periodic tick, or a successful add
RefreshTrigger ==
    /\ stocks' # <<>>
    /\ \/ KeyR
       \/ (tick_count' = tick_count + 1 /\ tick_count' % 60 = 0 /\ state = "Normal")
       \/ (AddEnter /\ stocks' # stocks)

\* C21: once the worker has terminated, every step that calls
\* refresh_stocks on a non-empty watchlist ends with the worker-unavailable
\* text as the error message, and without a panic.
C21_WorkerGoneIsSurfaced ==
    [][(worker.pc = "dead" /\ RefreshTrigger) =>
          /\ error' = MsgDisconnected
          /\ ~panicked']_vars

\* the selection names an entry of the list
ValidSelection == selected # <<>> /\ selected[1] < Len(stocks)
\* the codes of the list without the entry at (zero-based) index i
CodesWithout(i) ==
    [k \in 1..(Len(stocks) - 1) |->
        IF k <= i THEN stocks[k].code ELSE stocks[k + 1].code]
\* the codes of the list with the entries at (zero-based) indices i, j exchanged
CodesSwapped(i, j) ==
    [k \in 1..Len(stocks) |->
        IF k = i + 1 THEN stocks[j + 1].code
        ELSE IF k = j + 1 THEN stocks[i + 1].code
        ELSE stocks[k].code]
ListUntouched == UNCHANGED <<stocks, selected, saved, error>>

\* C22: for every list length and every selection, 'd', 'u' and 'j' never
\* index the list out of bounds: each acts on a valid index or does
\* nothing; 'u' on the first entry and 'j' on the last change nothing.
C22_NoOutOfBounds ==
    [][/\ (KeyD \/ KeyU \/ KeyJ) => ~panicked'
       /\ KeyD => IF ValidSelection
                  THEN codes_of(stocks') = CodesWithout(selected[1])
                  ELSE ListUntouched
       /\ KeyU => IF ValidSelection /\ selected[1] > 0
                  THEN codes_of(stocks') = CodesSwapped(selected[1], selected[1] - 1)
                  ELSE ListUntouched
       /\ KeyJ => IF ValidSelection /\ selected[1] + 1 < Len(stocks)
                  THEN codes_of(stocks') = CodesSwapped(selected[1], selected[1] + 1)
                  ELSE ListUntouched]_vars

\* C22 witness: keys were handled with a selection past the end of a
\* two-entry list, and nothing moved.
C22_Witness ==
    /\ Len(stocks) = 2
    /\ selected = <<5>>
    /\ steps >= 3
    /\ ~panicked

\* how many times id occurs in the sequence ids
Occurrences(ids, id) == Cardinality({i \in 1..Len(ids) : ids[i] = id})
\* the ids of the results published so far
Published == drained \o [i \in 1..Len(rx) |-> rx[i].id]
\* a result is StocksFetched or FetchError, one of the two
OneVariant(e) == IF e.ok THEN e.err = <<>> ELSE e.data = <<>>

\* every request taken has been fetched once: it is being fetched and has no
\* result yet, or it has exactly one result; each fetch answers a request
\* that refresh_stocks sent and try_send accepted
OneFetchPerRequest ==
    /\ \A i \in 1..Len(taken) :
          /\ Occurrences(taken, taken[i]) = 1
          /\ taken[i] \in 1..next_id /\ taken[i] \notin dropped
          /\ IF worker.pc = "fetching" /\ worker.id = taken[i]
             THEN Occurrences(Published, taken[i]) = 0
             ELSE Occurrences(Published, taken[i]) = 1
    /\ Len(Published) <= Len(taken)
    /\ \A i \in 1..Len(rx) : OneVariant(rx[i])

\* C23: for each request it takes the worker makes one fetch and publishes
\* exactly one result, StocksFetched or FetchError, then waits for the next
\* request; a failed fetch is not tried again, and every fetch answers a
\* request accepted from a refresh_stocks call.
C23_OneResultPerRequest ==
    /\ []OneFetchPerRequest
    /\ [][(worker.pc = "fetching" /\ worker' # worker) =>
             /\ worker'.pc = "recv"
             /\ Len(rx') = Len(rx) + 1
             /\ rx'[Len(rx')].id = worker.id]_vars

\* C23 witness: the one request was answered by a transport error, the
\* error was drained, and the worker waits with nothing to fetch.
C23_Witness ==
    /\ taken = <<1>> /\ drained = <<1>>
    /\ error = <<"http_req::Error">>
    /\ worker.pc = "recv" /\ refresh_tx = <<>> /\ rx = <<>>
    /\ next_id = 1

\* C24: for every ordered list of codes, save_stocks then load_stocks on the
\* same path returns the same codes in the same order, duplicates and
\* spelling kept.
C24_SaveLoadRoundTrip ==
    h_pc = "done" =>
        /\ h_out.result.ok
        /\ Len(h_out.result.data) = Len(h_in)
        /\ \A i \in 1..Len(h_in) : h_out.result.data[i] = h_in[i]

\* C24 witness: a list holding twice the code made of a quote and a
\* backslash was saved and loaded back.
C24_Witness ==
    /\ h_pc = "done"
    /\ h_in = << <<"\"", "\\">>, <<"\"", "\\">> >>
    /\ h_out.result.ok
    /\ h_out.result.data = h_in

\* C25: loading a file that is not valid storage data returns an error and
\* App::load_stocks then sets the error message and leaves the list it
\* holds as it was; with no file the load gives an empty list and no error.
C25_MalformedFileKeepsList ==
    h_pc = "done" =>
        /\ (h_in.file.exists /\ h_in.file.content \in BadContents) =>
              /\ h_out.stocks = h_in.stocks
              /\ h_out.error # <<>> /\ h_out.error # h_in.error
        /\ ~h_in.file.exists =>
              /\ h_out.stocks = <<>>
              /\ h_out.error = h_in.error

\* C25 witness: an App holding two entries loaded a file cut short; the
\* entries are still there and the error is set.
C25_Witness ==
    /\ h_pc = "done"
    /\ Len(h_in.stocks) = 2
    /\ h_in.file.exists /\ h_in.file.content = JsonOpen
    /\ h_out.stocks = h_in.stocks
    /\ h_out.error = <<"invalid storage data">>

\* refresh_stocks is called in this step (try_send is called once)
RefreshCall == next_id' = next_id + 1

\* C26 as stated: after every refresh_stocks call the request waiting for
\* the worker carries the watchlist of that call, so the fetch the worker
\* starts next uses the list of the most recent call.
C26_QueuedRequestIsLatest ==
    [][RefreshCall =>
          /\ refresh_tx' # <<>>
          /\ refresh_tx'[Len(refresh_tx')].codes = [i \in 1..Len(stocks') |-> stocks'[i].code]]_vars

\* C26 amended: a fetch uses the list of the call whose request was
\* accepted: a call made while the channel is empty queues the list of that
\* moment, a call made while a request waits is dropped and leaves that
\* request as it was, and the worker fetches the request as queued.
C26_QueuedRequestIsFirstAccepted ==
    [][/\ RefreshCall =>
             IF refresh_tx = <<>>
             THEN refresh_tx' = <<[id |-> next_id',
                                   codes |-> [i \in 1..Len(stocks') |-> stocks'[i].code]]>>
             ELSE refresh_tx' = refresh_tx /\ next_id' \in dropped'
       /\ (worker.pc = "recv" /\ worker'.pc = "fetching") =>
             /\ refresh_tx # <<>>
             /\ worker'.id = refresh_tx[1].id
             /\ worker'.codes = refresh_tx[1].codes]_vars

\* C26 witness: "77" was added while the startup request waited; the add's
\* call was dropped and the request waiting does not hold the new code.
C26_Witness ==
    /\ Len(stocks) = 2
    /\ stocks[2].code = <<"7", "7">>
    /\ refresh_tx # <<>>
    /\ refresh_tx[1].id = 1
    /\ refresh_tx[1].codes = <<stocks[1].code>>
    /\ 2 \in dropped

\* where a request is on its way through the pipeline
Queued(id) == \E i \in 1..Len(refresh_tx) : refresh_tx[i].id = id
Fetching(id) == worker.pc = "fetching" /\ worker.id = id
Waiting(id) == \E i \in 1..Len(rx) : rx[i].id = id
Drained(id) == (\E i \in 1..Len(drained) : drained[i] = id) /\ ~Waiting(id)

\* what a tick that drains leaves behind: the time of the merge when a
\* success was among the results, and the last result decides the error
DrainShows ==
    rx # <<>> /\ rx' = <<>> =>
       LET last == rx[Len(rx)]
       IN /\ (\E i \in 1..Len(rx) : rx[i].ok) => last_refresh' \in LiveClock
          /\ Len(rx) = 1 /\ last.ok => stocks' = update_stocks(stocks, last.data)
          /\ ~last.ok => error' = <<last.err>>
          /\ last.ok => error' = <<>>

\* C27: under fair scheduling of the worker and the tick, a request in the
\* channel is eventually taken by the worker, its fetch eventually puts a
\* result in the result channel, and the result is eventually drained; the
\* drain merges a success and shows a failure as the error.
C27_PipelineLiveness ==
    /\ \A id \in 1..(MaxLiveIds + 1) :
          /\ Queued(id) ~> Fetching(id)
          /\ Fetching(id) ~> Waiting(id)
          /\ Waiting(id) ~> Drained(id)
    /\ [][DrainShows]_vars

\* C27 witness: a request has been through the whole pipeline and its
\* failure is the error shown, while the next one is being fetched.
C27_Witness ==
    /\ Drained(1)
    /\ error = <<"http_req::Error">>
    /\ Fetching(2)

\* to_secid takes the code as manual mode (api.rs:40-45)
ManualMode(code) == starts_with(to_lowercase(code), "x")

\* C28: the match key is built from the code without its marker exactly
\* when to_secid takes the code as manual mode, so the match key of a
\* manual code is the upper-cased instrument code of the id queried.
C28_MarkerStrippedWhenManual ==
    h_pc = "done" =>
       /\ h_out.key = to_ascii_uppercase(rsplit_dot_first(
                         IF ManualMode(h_in) THEN Tail(h_in) ELSE h_in))
       /\ ManualMode(h_in) =>
             h_out.key = to_ascii_uppercase(rsplit_dot_first(h_out.secid))

\* C29: the selection is none or an index below the length of the
\* watchlist in every reachable state; a delete leaves no selection and a
\* tick that drains results leaves the selection as it was.
C29_SelectionValid ==
    /\ [](selected = None \/ selected[1] < Len(stocks))
    /\ [][/\ Len(stocks') < Len(stocks) => selected' = None
          /\ rx # <<>> /\ rx' = <<>> => selected' = selected]_vars

\* C29 witness: the last of two entries is selected and stays selected
\* through a merge that filled in the quote of an entry.
C29_Witness ==
    /\ Len(stocks) = 2
    /\ selected = Some(1)
    /\ drained # <<>>
    /\ \E i \in 1..2 : stocks[i].title # stocks[i].code

\* C30: no two entries of the watchlist have the same match key, in every
\* state reached from a stored list whose match keys are distinct.
C30_MatchKeysDistinct ==
    \A i, j \in 1..Len(stocks) :
        i # j => normalize_code_for_match(stocks[i].code)
                    # normalize_code_for_match(stocks[j].code)

\* C30 witness: "77" was added to the stored "7", moved up, and the list
\* was saved in that order.
C30_Witness ==
    /\ Len(stocks) = 2
    /\ stocks[1].code = <<"7", "7">>
    /\ stocks[2].code = <<"7">>
    /\ saved.codes = <<<<"7", "7">>, <<"7">>>>

\* a step that leaves the list as long as it was with its codes in another
\* order: a move that applied
MoveApplied ==
    /\ Len(stocks') = Len(stocks)
    /\ [i \in 1..Len(stocks') |-> stocks'[i].code]
          # [i \in 1..Len(stocks) |-> stocks[i].code]

\* C31: a move that applies exchanges the selected entry with the one next
\* to it, leaves every other entry where it was, and the selection after
\* the move is on the entry that was selected before it.
C31_MoveSwapsAndFollows ==
    [][MoveApplied =>
          /\ selected # None /\ selected' # None
          /\ selected[1] < Len(stocks)
          /\ selected'[1] < Len(stocks)
          /\ selected'[1] - selected[1] \in {-1, 1}
          /\ stocks'[selected'[1] + 1] = stocks[selected[1] + 1]
          /\ stocks'[selected[1] + 1] = stocks[selected'[1] + 1]
          /\ \A i \in 1..Len(stocks) :
                i \notin {selected[1] + 1, selected'[1] + 1} => stocks'[i] = stocks[i]
          /\ stocks'[selected'[1] + 1].code = stocks[selected[1] + 1].code]_vars

\* C31 witness: of the stored "x7", "a" the second was selected and moved
\* up; it is first now, selected, and the file holds the new order.
C31_Witness ==
    /\ Len(stocks) = 2
    /\ stocks[1].code = <<"a">>
    /\ stocks[2].code = <<"x", "7">>
    /\ selected = Some(0)
    /\ saved.codes = <<<<"a">>, <<"x", "7">>>>

\* the watchlist after the quotes of the successes among events have been
\* merged into it one after the other, oldest first
RECURSIVE MergedInOrder(_, _)
MergedInOrder(stks, events) ==
    IF events = <<>> THEN stks
    ELSE MergedInOrder(IF Head(events).ok
                       THEN update_stocks(stks, Head(events).data)
                       ELSE stks,
                       Tail(events))

\* C32: a drain takes every result that was pending, oldest first, and
\* leaves none; failures change no entry, successes are merged in their
\* order; the error message after the drain is the last result's: empty
\* exactly when that was a success, its text when it was a failure.
C32_DrainTakesAllInOrder ==
    [][/\ Len(rx') < Len(rx) => rx' = <<>>
       /\ rx # <<>> /\ rx' = <<>> =>
             /\ drained' = drained \o [i \in 1..Len(rx) |-> rx[i].id]
             /\ stocks' = MergedInOrder(stocks, rx)
             /\ (\A i \in 1..Len(rx) : ~rx[i].ok) => stocks' = stocks
             /\ error' = <<>> <=> rx[Len(rx)].ok
             /\ ~rx[Len(rx)].ok => error' = <<rx[Len(rx)].err>>]_vars

\* C32 witness: one tick drained two results, a success that filled in a
\* quote and after it a failure, whose message is the error shown.
C32_Witness ==
    /\ Len(drained) = 2
    /\ tick_count \in {1, TickStart + 1}
    /\ rx = <<>>
    /\ error = <<"http_req::Error">>
    /\ \E i \in 1..Len(stocks) : stocks[i].title # stocks[i].code

====
